---- MODULE Spec2Model ----
(***************************************************************************)
(* A model of linux_do_py: the content normalizer _clean_post_html, the    *)
(* listing helpers _relative_time, _format_count and _render_topics of     *)
(* cli.py, and the record constructors of api.py.                          *)
(*                                                                         *)
(* A text is a sequence of characters.  A character is a one-character     *)
(* string; the literal URL prefixes "https://linux.do/uploads/" and        *)
(* "http://linux.do/uploads/" are carried as one element each, since none  *)
(* of their characters is a bracket, a parenthesis, whitespace, or a digit *)
(* next to an x, the only classes the patterns of cli.py tell apart.       *)
(***************************************************************************)
EXTENDS Integers, Sequences, FiniteSets, TLC

VARIABLES
    pc,          \* the function at work and the line it stands at
    result,      \* the value the function returned
    raised,      \* the exception in flight, "none" when there is none
    md,          \* _clean_post_html: what markdownify returned for this call
    text,        \* _clean_post_html: the local variable text
    run,         \* _clean_post_html: 1 = first call, 2 = call on the first call's result
    out1,        \* _clean_post_html: the value the first call returned
    entry,       \* _clean_post_html: text as the blank-line loop received it
    link,        \* the anchor the converted text was built from, or NoLink
    iso,         \* _relative_time: the argument and what parsing it gives
    secs,        \* _relative_time: the local variable secs
    n,           \* _format_count: the argument
    fetched,     \* top/hot/latest: the list fetch_topics returned
    limit,       \* _render_topics: the argument limit
    json_output, \* the module's _json_output flag
    topics,      \* _render_topics: the local variable topics
    table,       \* _render_topics: the rows added to the table so far
    printed,     \* _render_topics: the records or rows written out
    d,           \* Topic.from_dict / fetch_categories: the JSON object
    obj          \* the record constructed from d

cleanVars == <<md, text, run, out1, entry, link>>
timeVars == <<iso, secs>>
countVars == <<n>>
renderVars == <<fetched, limit, json_output, topics, table, printed>>
recordVars == <<d, obj>>

vars == <<pc, result, raised, cleanVars, timeVars, countVars, renderVars, recordVars>>

----------------------------------------------------------------------------
(* Bounds of the model *)

MaxLines == 4
MaxCollapseLen == 7
MaxIsoLen == 11
MaxMult == 2
Window == 45
MaxCount == 13000
MaxTopics == 3
MaxLimit == 4
MaxMissing == 3

----------------------------------------------------------------------------
(* The state of a component that is not at work *)

NoLink == [pre |-> <<>>, label |-> <<>>, url |-> <<>>, post |-> <<>>, on |-> FALSE]
NoIso == [raw |-> <<>>, kind |-> "none", halves |-> 0]
NoObj == [kind |-> "none"]

CleanIdle ==
    /\ md = <<>> /\ text = <<>> /\ run = 1 /\ out1 = <<>> /\ entry = <<>>
    /\ link = NoLink
TimeIdle == iso = NoIso /\ secs = 0
CountIdle == n = 0
RenderIdle ==
    /\ fetched = <<>> /\ limit = 0 /\ json_output = FALSE
    /\ topics = <<>> /\ table = <<>> /\ printed = <<>>
RecordIdle == d = <<>> /\ obj = NoObj
NoResult == result = <<>> /\ raised = "none"

----------------------------------------------------------------------------
(* Characters and character classes *)

NL == "\n"
UploadHttps == "https://linux.do/uploads/"
UploadHttp == "http://linux.do/uploads/"
MulSign == "U+00D7"

WhiteSpace == {" ", "\t", "\n", "\r", "\f"}
Digit == {"0", "1", "2", "3", "4", "5", "6", "7", "8", "9"}
DimSep == {MulSign, "x"}
UploadPrefix == {UploadHttps, UploadHttp}

IsSpace(c) == c \in WhiteSpace

Min(a, b) == IF a <= b THEN a ELSE b
Max(a, b) == IF a >= b THEN a ELSE b

\* s[:k] for k >= 0
Take(s, k) == SubSeq(s, 1, Min(k, Len(s)))

\* index of the first c at or after position from, 0 when there is none
FirstIdx(s, from, c) ==
    LET hits == {i \in from..Len(s) : s[i] = c}
    IN  IF hits = {} THEN 0 ELSE CHOOSE i \in hits : \A j \in hits : i <= j

\* the index just past the maximal run of whitespace that starts at from
SkipSpace(s, from) ==
    LET stops == {i \in from..Len(s) : ~IsSpace(s[i])}
    IN  IF stops = {} THEN Len(s) + 1
        ELSE CHOOSE i \in stops : \A j \in stops : i <= j

\* str.strip()
strip(s) ==
    LET keep == {i \in 1..Len(s) : ~IsSpace(s[i])}
    IN  IF keep = {} THEN <<>>
        ELSE LET lo == CHOOSE i \in keep : \A j \in keep : i <= j
                 hi == CHOOSE i \in keep : \A j \in keep : i >= j
             IN  SubSeq(s, lo, hi)

----------------------------------------------------------------------------
(* The three patterns of _clean_post_html.  MatchX(s, i) is the index of   *)
(* the last character of the match of pattern X that starts at i, and 0    *)
(* when no match starts there.                                             *)

\* \[([^\]]*?\d+[×x]\d+[^\]]*?)\]\([^)]+\)
\* The label holds no "]", so it ends at the first "]" after i, and the URL
\* holds no ")", so it ends at the first ")" after the "(".
MatchDimLink(s, i) ==
    IF i > Len(s) \/ s[i] # "[" THEN 0
    ELSE LET j == FirstIdx(s, i + 1, "]")
         IN  IF j = 0 THEN 0
             ELSE IF ~\E p \in (i + 1)..(j - 3) :
                         /\ s[p] \in Digit
                         /\ s[p + 1] \in DimSep
                         /\ s[p + 2] \in Digit
                  THEN 0
             ELSE IF j + 1 > Len(s) \/ s[j + 1] # "(" THEN 0
             ELSE LET k == FirstIdx(s, j + 2, ")")
                  IN  IF k >= j + 3 THEN k ELSE 0

\* \[\s*\]\([^)]+\)
MatchEmptyLink(s, i) ==
    IF i > Len(s) \/ s[i] # "[" THEN 0
    ELSE LET j == SkipSpace(s, i + 1)
         IN  IF j > Len(s) \/ s[j] # "]" THEN 0
             ELSE IF j + 1 > Len(s) \/ s[j + 1] # "(" THEN 0
             ELSE LET k == FirstIdx(s, j + 2, ")")
                  IN  IF k >= j + 3 THEN k ELSE 0

\* \n\s*\(https?://linux\.do/uploads/[^)]+\)\s*\n
\* The first \s* is greedy and must stop before "(", so it takes the whole
\* run of whitespace; the second gives back to the last newline of its run.
MatchUploadLine(s, i) ==
    IF i > Len(s) \/ s[i] # NL THEN 0
    ELSE LET p == SkipSpace(s, i + 1)
         IN  IF p + 1 > Len(s) \/ s[p] # "(" \/ s[p + 1] \notin UploadPrefix THEN 0
             ELSE LET k == FirstIdx(s, p + 2, ")")
                  IN  IF k < p + 3 THEN 0
                      ELSE LET r == SkipSpace(s, k + 1)
                               nls == {m \in (k + 1)..(r - 1) : s[m] = NL}
                           IN  IF nls = {} THEN 0
                               ELSE CHOOSE m \in nls : \A o \in nls : m >= o

\* the match of the named pattern that starts at i
MatchAt(pattern, s, i) ==
    CASE pattern = "DimLink" -> MatchDimLink(s, i)
      [] pattern = "EmptyLink" -> MatchEmptyLink(s, i)
      [] pattern = "UploadLine" -> MatchUploadLine(s, i)

\* re.sub(pattern, repl, s): the leftmost match at or after pos is replaced
\* and the scan resumes just past it; matches never overlap.
RECURSIVE SubFrom(_, _, _, _)
SubFrom(pattern, repl, s, pos) ==
    LET starts == {i \in pos..Len(s) : MatchAt(pattern, s, i) > 0}
    IN  IF starts = {} THEN SubSeq(s, pos, Len(s))
        ELSE LET i == CHOOSE a \in starts : \A b \in starts : a <= b
                 e == MatchAt(pattern, s, i)
             IN  SubSeq(s, pos, i - 1) \o repl \o SubFrom(pattern, repl, s, e + 1)

ImagePlaceholder == <<"[", "i", "m", "a", "g", "e", "]">>

SubDimLink(s) == SubFrom("DimLink", ImagePlaceholder, s, 1)
SubEmptyLink(s) == SubFrom("EmptyLink", <<>>, s, 1)
SubUploadLine(s) == SubFrom("UploadLine", <<NL>>, s, 1)

\* "\n\n\n" in s
HasTripleNL(s) ==
    \E i \in 1..(Len(s) - 2) : s[i] = NL /\ s[i + 1] = NL /\ s[i + 2] = NL

\* s.replace("\n\n\n", repl): left to right, occurrences do not overlap
RECURSIVE ReplaceTripleFrom(_, _, _)
ReplaceTripleFrom(s, pos, repl) ==
    IF pos > Len(s) THEN <<>>
    ELSE IF pos + 2 <= Len(s) /\ s[pos] = NL /\ s[pos + 1] = NL /\ s[pos + 2] = NL
         THEN repl \o ReplaceTripleFrom(s, pos + 3, repl)
         ELSE <<s[pos]>> \o ReplaceTripleFrom(s, pos + 1, repl)

ReplaceTripleByOne(s) == ReplaceTripleFrom(s, 1, <<NL>>)

\* text.replace("\n\n\n", "\n\n")
ReplaceTriple(s) == ReplaceTripleFrom(s, 1, <<NL, NL>>)

----------------------------------------------------------------------------
(* markdownify, a library call.  For the first call its result is an input *)
(* of the model.  The second call receives text without markup ("<", "&",  *)
(* "*", "_" are not in the alphabet), which the library only normalizes in *)
(* whitespace: releases up to 0.13 squeeze runs of blanks to one blank,    *)
(* later ones also turn every whitespace run holding a newline into one    *)
(* newline.  Either may be installed.                                      *)

RECURSIVE SqueezeBlanksFrom(_, _)
SqueezeBlanksFrom(s, pos) ==
    IF pos > Len(s) THEN <<>>
    ELSE IF s[pos] \in {" ", "\t"}
         THEN LET stops == {i \in pos..Len(s) : s[i] \notin {" ", "\t"}}
                  nxt == IF stops = {} THEN Len(s) + 1
                         ELSE CHOOSE i \in stops : \A j \in stops : i <= j
              IN  <<" ">> \o SqueezeBlanksFrom(s, nxt)
         ELSE <<s[pos]>> \o SqueezeBlanksFrom(s, pos + 1)

RECURSIVE SqueezeNewlinesFrom(_, _)
SqueezeNewlinesFrom(s, pos) ==
    IF pos > Len(s) THEN <<>>
    ELSE IF s[pos] \in {" ", "\t", "\r", NL}
         THEN LET stops == {i \in pos..Len(s) : s[i] \notin {" ", "\t", "\r", NL}}
                  nxt == IF stops = {} THEN Len(s) + 1
                         ELSE CHOOSE i \in stops : \A j \in stops : i <= j
              IN  IF \E i \in pos..(nxt - 1) : s[i] \in {NL, "\r"}
                  THEN <<NL>> \o SqueezeNewlinesFrom(s, nxt)
                  ELSE SubSeq(s, pos, nxt - 1) \o SqueezeNewlinesFrom(s, nxt)
         ELSE <<s[pos]>> \o SqueezeNewlinesFrom(s, pos + 1)

markdownifyText(s) ==
    { SqueezeBlanksFrom(s, 1),
      SqueezeBlanksFrom(SqueezeNewlinesFrom(s, 1), 1) }

----------------------------------------------------------------------------
(* Inputs of the normalizer *)

UploadUrl == <<"(", UploadHttps, "a", ")">>

\* the lines a converted post is made of
LineKinds ==
    { <<>>,
      <<" ">>,
      <<"a">>,
      UploadUrl,
      <<" ">> \o UploadUrl \o <<" ">>,
      <<"(", "u", ")">>,
      <<"[", "]">> \o UploadUrl,
      <<"[", "]", "(", "u", ")", " ", "a">>,
      <<"[", "8", "x", "6", "]", "(", "u", ")">> }

RECURSIVE JoinLines(_)
JoinLines(ls) ==
    IF Len(ls) = 0 THEN <<>>
    ELSE IF Len(ls) = 1 THEN ls[1]
    ELSE ls[1] \o <<NL>> \o JoinLines(Tail(ls))

LineTexts ==
    { JoinLines(ls) : ls \in UNION { [1..k -> LineKinds] : k \in 1..MaxLines } }

RECURSIVE SeqsUpTo(_, _)
SeqsUpTo(S, len) ==
    IF len = 0 THEN {<<>>}
    ELSE LET shorter == SeqsUpTo(S, len - 1)
         IN  shorter \cup {Append(s, c) : s \in {t \in shorter : Len(t) = len - 1}, c \in S}

CollapseTexts == SeqsUpTo({"a", NL, " "}, MaxCollapseLen)

----------------------------------------------------------------------------
(* _clean_post_html, one action per statement *)

\* text = markdownify(cooked, strip=["img"]).strip()
CleanConvert ==
    /\ pc = "clean168"
    /\ text' = strip(md)
    /\ pc' = "clean169"
    /\ UNCHANGED <<md, run, out1, entry, link>>
    /\ UNCHANGED <<result, raised, timeVars, countVars, renderVars, recordVars>>

\* text = re.sub(<dimension-caption link>, "[image]", text)
CleanDimLink ==
    /\ pc = "clean169"
    /\ text' = SubDimLink(text)
    /\ pc' = "clean170"
    /\ UNCHANGED <<md, run, out1, entry, link>>
    /\ UNCHANGED <<result, raised, timeVars, countVars, renderVars, recordVars>>

\* text = re.sub(<empty-label link>, "", text)
CleanEmptyLink ==
    /\ pc = "clean170"
    /\ text' = SubEmptyLink(text)
    /\ pc' = "clean171"
    /\ UNCHANGED <<md, run, out1, entry, link>>
    /\ UNCHANGED <<result, raised, timeVars, countVars, renderVars, recordVars>>

\* text = re.sub(<bare upload-URL line>, "\n", text)
CleanUploadLine ==
    /\ pc = "clean171"
    /\ text' = SubUploadLine(text)
    /\ entry' = SubUploadLine(text)
    /\ pc' = "clean172"
    /\ UNCHANGED <<md, run, out1, link>>
    /\ UNCHANGED <<result, raised, timeVars, countVars, renderVars, recordVars>>

\* while "\n\n\n" in text: text = text.replace("\n\n\n", "\n\n")
CleanCollapse ==
    /\ pc = "clean172"
    /\ HasTripleNL(text)
    /\ text' = ReplaceTriple(text)
    /\ UNCHANGED <<pc, md, run, out1, entry, link>>
    /\ UNCHANGED <<result, raised, timeVars, countVars, renderVars, recordVars>>

\* the loop test fails: return text
CleanReturn ==
    /\ pc = "clean172"
    /\ ~HasTripleNL(text)
    /\ pc' = "cleanRet"
    /\ result' = text
    /\ out1' = IF run = 1 THEN text ELSE out1
    /\ UNCHANGED <<md, text, run, entry, link>>
    /\ UNCHANGED <<raised, timeVars, countVars, renderVars, recordVars>>

\* the caller hands the returned value to _clean_post_html again
CleanAgain ==
    /\ pc = "cleanRet"
    /\ run = 1
    /\ run' = 2
    /\ md' \in markdownifyText(out1)
    /\ pc' = "clean168"
    /\ UNCHANGED <<text, out1, entry, link>>
    /\ UNCHANGED <<result, raised, timeVars, countVars, renderVars, recordVars>>

CleanOnce ==
    \/ CleanConvert
    \/ CleanDimLink
    \/ CleanEmptyLink
    \/ CleanUploadLine
    \/ CleanCollapse
    \/ CleanReturn

InitClean ==
    /\ pc = "clean168"
    /\ md \in LineTexts
    /\ text = <<>>
    /\ run = 1
    /\ out1 = <<>>
    /\ entry = <<>>
    /\ link = NoLink
    /\ NoResult /\ TimeIdle /\ CountIdle /\ RenderIdle /\ RecordIdle

NextClean == CleanOnce \/ CleanAgain

SpecClean == InitClean /\ [][NextClean]_vars

InitCollapse ==
    /\ pc = "clean168"
    /\ md \in CollapseTexts
    /\ text = <<>>
    /\ run = 1
    /\ out1 = <<>>
    /\ entry = <<>>
    /\ link = NoLink
    /\ NoResult /\ TimeIdle /\ CountIdle /\ RenderIdle /\ RecordIdle

SpecCollapse == InitCollapse /\ [][CleanOnce]_vars

\* a converted anchor <a href=url>label</a> between two pieces of plain text
LinkPres == { <<>>, <<"a", " ">>, <<"a", NL>> }
LinkPosts == { <<>>, <<" ", "b">>, <<NL, NL, NL, "b">> }
LinkLabels ==
    { <<"8", "x", "6">>,
      <<"p", " ", "8", "0", "0", "x", "6", "0", "0">>,
      <<"8", MulSign, "6", " ", "K">> }
LinkUrls ==
    { <<"u">>,
      <<UploadHttps, "a">>,
      <<"u", "(", "b", ")">> }

LinkText(l) == l.pre \o <<"[">> \o l.label \o <<"]", "(">> \o l.url \o <<")">> \o l.post

InitLink ==
    /\ pc = "clean168"
    /\ link \in [pre : LinkPres, label : LinkLabels, url : LinkUrls,
                 post : LinkPosts, on : {TRUE}]
    /\ md = LinkText(link)
    /\ text = <<>>
    /\ run = 1
    /\ out1 = <<>>
    /\ entry = <<>>
    /\ NoResult /\ TimeIdle /\ CountIdle /\ RenderIdle /\ RecordIdle

SpecLink == InitLink /\ [][CleanOnce]_vars

\* the program runs each call to its end
SpecCollapseFair == SpecCollapse /\ WF_vars(CleanOnce)

----------------------------------------------------------------------------
(* str(k) and f"{k}": the decimal digits of an integer *)

DigitChar(i) == <<"0", "1", "2", "3", "4", "5", "6", "7", "8", "9">>[i + 1]

RECURSIVE DecNat(_)
DecNat(k) == IF k < 10 THEN <<DigitChar(k)>> ELSE DecNat(k \div 10) \o <<DigitChar(k % 10)>>

DecStr(k) == IF k < 0 THEN <<"-">> \o DecNat(0 - k) ELSE DecNat(k)

----------------------------------------------------------------------------
(* _relative_time.  The argument is a string raw; what                     *)
(* datetime.fromisoformat makes of it is part of the input: "invalid" (it  *)
(* raises ValueError), "naive" (a datetime without UTC offset) or "aware", *)
(* and then halves is now - dt in half seconds, negative for a timestamp   *)
(* in the future.                                                          *)

\* int(x): truncation towards zero, x given in half seconds
IntOfHalves(h) == IF h >= 0 THEN h \div 2 ELSE 0 - ((0 - h) \div 2)

CaughtValueErrorOnly == {"ValueError"}

\* except (ValueError, TypeError)
Caught == {"ValueError", "TypeError"}

FormatElapsedInclusive(sec) ==
    IF sec <= 60 THEN DecStr(sec) \o <<"s">>
    ELSE IF sec <= 3600 THEN DecStr(sec \div 60) \o <<"m">>
    ELSE IF sec <= 86400 THEN DecStr(sec \div 3600) \o <<"h">>
    ELSE DecStr(sec \div 86400) \o <<"d">>

\* the four return statements after secs = int(delta.total_seconds())
FormatElapsed(sec) ==
    IF sec < 60 THEN DecStr(sec) \o <<"s">>
    ELSE IF sec < 3600 THEN DecStr(sec \div 60) \o <<"m">>
    ELSE IF sec < 86400 THEN DecStr(sec \div 3600) \o <<"h">>
    ELSE DecStr(sec \div 86400) \o <<"d">>

\* if not iso: return ""
TimeEmpty ==
    /\ pc = "time40"
    /\ iso.raw = <<>>
    /\ result' = <<>>
    /\ pc' = "timeRet"
    /\ UNCHANGED <<raised, cleanVars, timeVars, countVars, renderVars, recordVars>>

\* dt = datetime.fromisoformat(iso.replace("Z", "+00:00"))
TimeParse ==
    /\ pc = "time40"
    /\ iso.raw # <<>>
    /\ IF iso.kind = "invalid"
       THEN raised' = "ValueError" /\ pc' = "time53"
       ELSE raised' = "none" /\ pc' = "time44"
    /\ UNCHANGED <<result, cleanVars, timeVars, countVars, renderVars, recordVars>>

\* delta = datetime.now(timezone.utc) - dt; secs = int(delta.total_seconds())
\* a naive dt cannot be subtracted from an aware one: TypeError
TimeDelta ==
    /\ pc = "time44"
    /\ IF iso.kind = "naive"
       THEN raised' = "TypeError" /\ pc' = "time53" /\ secs' = secs
       ELSE raised' = "none" /\ pc' = "time46" /\ secs' = IntOfHalves(iso.halves)
    /\ UNCHANGED <<result, iso, cleanVars, countVars, renderVars, recordVars>>

\* if secs < 60: ... return f"{secs // 86400}d"
TimeFormat ==
    /\ pc = "time46"
    /\ result' = FormatElapsed(secs)
    /\ pc' = "timeRet"
    /\ UNCHANGED <<raised, cleanVars, timeVars, countVars, renderVars, recordVars>>

\* except (ValueError, TypeError): return iso[:10]
TimeExcept ==
    /\ pc = "time53"
    /\ IF raised \in Caught
       THEN result' = Take(iso.raw, 10) /\ raised' = "none" /\ pc' = "timeRet"
       ELSE result' = result /\ raised' = raised /\ pc' = "timeRaised"
    /\ UNCHANGED <<cleanVars, timeVars, countVars, renderVars, recordVars>>

NextTime == TimeEmpty \/ TimeParse \/ TimeDelta \/ TimeFormat \/ TimeExcept

\* the elapsed whole seconds of the inputs: around every multiple, up to MaxMult, of
\* each unit
Units == {1, 60, 3600, 86400}
ElapsedSecs ==
    {u * k + w : u \in Units, k \in 0..MaxMult, w \in 0..Window}
    \cup {e \in {u * k - w : u \in Units, k \in 1..MaxMult, w \in 1..Window} : e >= 0}

RawStrings == SeqsUpTo({"2", "x"}, MaxIsoLen)
AwareRaw == <<"2", "Z">>

IsoInputs ==
    [raw : RawStrings, kind : {"invalid", "naive"}, halves : {0}]
    \cup [raw : {AwareRaw}, kind : {"aware"},
          halves : {2 * e + f : e \in ElapsedSecs, f \in {0, 1}}
                   \cup {0 - h : h \in 1..Window}]

InitTime ==
    /\ pc = "time40"
    /\ iso \in IsoInputs
    /\ secs = 0
    /\ NoResult /\ CleanIdle /\ CountIdle /\ RenderIdle /\ RecordIdle

SpecTime == InitTime /\ [][NextTime]_vars

----------------------------------------------------------------------------
(* _format_count.  k / 1000 is a float division and :.1f rounds the double *)
(* it gives to one decimal, ties to even.  OneDecimal(k) is the number of  *)
(* tenths printed.  The double is nearer to the exact quotient than the    *)
(* quotient is to any midpoint between two tenths, unless the quotient is  *)
(* the midpoint itself (k % 100 = 50).  Then k / 1000 is a double when 125 *)
(* divides k, and the tie goes to the even tenth; otherwise the double     *)
(* lies below or above the midpoint as the 53-bit significand              *)
(* k * 2^(49 - E) / 125 was rounded down or up, where 2^E <= k / 1000 <    *)
(* 2^(E + 1).                                                              *)

RECURSIVE Pow2Mod125(_)
Pow2Mod125(k) == IF k = 0 THEN 1 ELSE (2 * Pow2Mod125(k - 1)) % 125

RECURSIVE BinExp(_, _)
BinExp(k, e) == IF 2000 * e > k THEN 0 ELSE 1 + BinExp(k, 2 * e)

OneDecimal(k) ==
    LET q == k \div 100
        r == k % 100
    IN  IF r < 50 THEN q
        ELSE IF r > 50 THEN q + 1
        ELSE IF k % 125 = 0 THEN (IF q % 2 = 0 THEN q ELSE q + 1)
        ELSE LET rem == ((k % 125) * Pow2Mod125(49 - BinExp(k, 1))) % 125
             IN  IF rem <= 62 THEN q ELSE q + 1

\* f"{k / 1000:.1f}k"
KiloStr(k) ==
    LET t == OneDecimal(k)
    IN  DecStr(t \div 10) \o <<".", DigitChar(t % 10), "k">>

format_count_above(k) ==
    IF k > 10000 THEN KiloStr(k)
    ELSE IF k > 1000 THEN KiloStr(k)
    ELSE DecStr(k)

format_count(k) ==
    IF k >= 10000 THEN KiloStr(k)
    ELSE IF k >= 1000 THEN KiloStr(k)
    ELSE DecStr(k)

FormatCount ==
    /\ pc = "count58"
    /\ result' = format_count(n)
    /\ pc' = "countRet"
    /\ UNCHANGED <<raised, cleanVars, timeVars, countVars, renderVars, recordVars>>

InitCount ==
    /\ pc = "count58"
    /\ n \in (0 - MaxCount)..MaxCount
    /\ NoResult /\ CleanIdle /\ TimeIdle /\ RenderIdle /\ RecordIdle

SpecCount == InitCount /\ [][FormatCount]_vars

----------------------------------------------------------------------------
(* top / hot / latest and _render_topics.  A topic is known by its id; the *)
(* command has fetched the list and calls _render_topics with its -n/--limit *)
(* option, an int that typer does not restrict.                            *)

\* s[:k], Python's slice: a negative k counts from the end
SliceTo(s, k) ==
    IF k >= 0 THEN SubSeq(s, 1, Min(k, Len(s)))
    ELSE SubSeq(s, 1, Max(0, Len(s) + k))

\* topics = topics[:limit]: the parameter is rebound to a new list
RenderSlice ==
    /\ pc = "render66"
    /\ topics' = SliceTo(fetched, limit)
    /\ pc' = "render67"
    /\ UNCHANGED <<fetched, limit, json_output, table, printed>>
    /\ UNCHANGED <<result, raised, cleanVars, timeVars, countVars, recordVars>>

\* if _json_output: _dump([dataclasses.asdict(t) for t in topics]); return
RenderJson ==
    /\ pc = "render67"
    /\ json_output
    /\ printed' = topics
    /\ pc' = "renderRet"
    /\ UNCHANGED <<fetched, limit, json_output, topics, table>>
    /\ UNCHANGED <<result, raised, cleanVars, timeVars, countVars, recordVars>>

\* table = Table(...)
RenderTable ==
    /\ pc = "render67"
    /\ ~json_output
    /\ table' = <<>>
    /\ pc' = "render79"
    /\ UNCHANGED <<fetched, limit, json_output, topics, printed>>
    /\ UNCHANGED <<result, raised, cleanVars, timeVars, countVars, recordVars>>

\* for t in topics: ... table.add_row(str(t.id), ...)
RenderRow ==
    /\ pc = "render79"
    /\ Len(table) < Len(topics)
    /\ table' = Append(table, topics[Len(table) + 1])
    /\ UNCHANGED <<pc, fetched, limit, json_output, topics, printed>>
    /\ UNCHANGED <<result, raised, cleanVars, timeVars, countVars, recordVars>>

\* console.print(table)
RenderPrint ==
    /\ pc = "render79"
    /\ Len(table) = Len(topics)
    /\ printed' = table
    /\ pc' = "renderRet"
    /\ UNCHANGED <<fetched, limit, json_output, topics, table>>
    /\ UNCHANGED <<result, raised, cleanVars, timeVars, countVars, recordVars>>

NextRender == RenderSlice \/ RenderJson \/ RenderTable \/ RenderRow \/ RenderPrint

TopicLists == UNION { [1..k -> 1..MaxTopics] : k \in 0..MaxTopics }

InitRender ==
    /\ pc = "render66"
    /\ fetched \in TopicLists
    /\ limit \in (0 - MaxLimit)..MaxLimit
    /\ json_output \in BOOLEAN
    /\ topics = <<>> /\ table = <<>> /\ printed = <<>>
    /\ NoResult /\ CleanIdle /\ TimeIdle /\ CountIdle /\ RecordIdle

SpecRender == InitRender /\ [][NextRender]_vars

----------------------------------------------------------------------------
(* Topic.from_dict and the Category(...) call of fetch_categories.  d is a *)
(* JSON object: a function from the keys it carries to their values.  A    *)
(* tag is a string or an object; tags may also be null.                    *)

TopicRequired == {"id", "title"}
TopicOptional ==
    {"slug", "category_id", "views", "posts_count", "reply_count", "like_count",
     "created_at", "last_posted_at", "last_poster_username", "pinned", "excerpt",
     "tags", "op_like_count", "has_accepted_answer"}
TopicKeys == TopicRequired \cup TopicOptional

CategoryRequired == {"id", "name", "slug"}
CategoryOptional == {"topic_count", "post_count", "description_text"}
CategoryKeys == CategoryRequired \cup CategoryOptional

StrTag(s) == [isdict |-> FALSE, hasname |-> FALSE, val |-> s]
DictTag(s) == [isdict |-> TRUE, hasname |-> TRUE, val |-> s]
NamelessTag == [isdict |-> TRUE, hasname |-> FALSE, val |-> ""]

\* d.get(key, default)
Get(obj_, key, default) == IF key \in DOMAIN obj_ THEN obj_[key] ELSE default

\* [t["name"] if isinstance(t, dict) else t for t in d.get("tags", [])]
TagNames(tags) == [i \in 1..Len(tags.items) |-> tags.items[i].val]

EmptyList == [null |-> FALSE, items |-> <<>>]

\* the exception the construction raises, "none" when it constructs
TopicRaises(j) ==
    IF "id" \notin DOMAIN j \/ "title" \notin DOMAIN j THEN "KeyError"
    ELSE IF Get(j, "tags", EmptyList).null THEN "TypeError"
    ELSE IF \E i \in 1..Len(Get(j, "tags", EmptyList).items) :
                LET t == Get(j, "tags", EmptyList).items[i]
                IN  t.isdict /\ ~t.hasname
         THEN "KeyError"
    ELSE "none"

from_dict_no_default(j) ==
    [ kind |-> "Topic",
      id |-> j["id"],
      title |-> j["title"],
      slug |-> Get(j, "slug", "topic"),
      category_id |-> Get(j, "category_id", 0),
      views |-> Get(j, "views", 0),
      posts_count |-> Get(j, "posts_count", 0),
      reply_count |-> Get(j, "reply_count", 0),
      like_count |-> Get(j, "like_count", 0),
      created_at |-> Get(j, "created_at", ""),
      last_posted_at |-> Get(j, "last_posted_at", ""),
      last_poster_username |-> Get(j, "last_poster_username", ""),
      pinned |-> Get(j, "pinned", FALSE),
      excerpt |-> Get(j, "excerpt", ""),
      tags |-> TagNames(Get(j, "tags", EmptyList)),
      op_like_count |-> Get(j, "op_like_count", 0),
      has_accepted_answer |-> Get(j, "pinned", FALSE) ]

from_dict(j) ==
    [ kind |-> "Topic",
      id |-> j["id"],
      title |-> j["title"],
      slug |-> Get(j, "slug", "topic"),
      category_id |-> Get(j, "category_id", 0),
      views |-> Get(j, "views", 0),
      posts_count |-> Get(j, "posts_count", 0),
      reply_count |-> Get(j, "reply_count", 0),
      like_count |-> Get(j, "like_count", 0),
      created_at |-> Get(j, "created_at", ""),
      last_posted_at |-> Get(j, "last_posted_at", ""),
      last_poster_username |-> Get(j, "last_poster_username", ""),
      pinned |-> Get(j, "pinned", FALSE),
      excerpt |-> Get(j, "excerpt", ""),
      tags |-> TagNames(Get(j, "tags", EmptyList)),
      op_like_count |-> Get(j, "op_like_count", 0),
      has_accepted_answer |-> Get(j, "has_accepted_answer", FALSE) ]

CategoryRaises(j) ==
    IF "id" \notin DOMAIN j \/ "name" \notin DOMAIN j \/ "slug" \notin DOMAIN j
    THEN "KeyError" ELSE "none"

Category(j) ==
    [ kind |-> "Category",
      id |-> j["id"],
      name |-> j["name"],
      slug |-> j["slug"],
      topic_count |-> Get(j, "topic_count", 0),
      post_count |-> Get(j, "post_count", 0),
      description |-> Get(j, "description_text", "") ]

\* return [Topic.from_dict(t) for t in topics_raw], one element
TopicFromDict ==
    /\ pc = "topic47"
    /\ raised' = TopicRaises(d)
    /\ IF TopicRaises(d) = "none"
       THEN obj' = from_dict(d) /\ pc' = "topicRet"
       ELSE obj' = obj /\ pc' = "topicRaised"
    /\ UNCHANGED <<result, d, cleanVars, timeVars, countVars, renderVars>>

\* return [Category(id=c["id"], ...) for c in cats], one element
CategoryFromDict ==
    /\ pc = "category150"
    /\ raised' = CategoryRaises(d)
    /\ IF CategoryRaises(d) = "none"
       THEN obj' = Category(d) /\ pc' = "categoryRet"
       ELSE obj' = obj /\ pc' = "categoryRaised"
    /\ UNCHANGED <<result, d, cleanVars, timeVars, countVars, renderVars>>

NextRecord == TopicFromDict \/ CategoryFromDict

\* a JSON object with every field of a topic, and one the code does not read
TagLists ==
    { EmptyList,
      [null |-> FALSE, items |-> <<StrTag("linux"), DictTag("nix")>>],
      [null |-> FALSE, items |-> <<NamelessTag>>],
      [null |-> TRUE, items |-> <<>>] }

FullTopic(tags) ==
    [ id |-> 7, title |-> "T", slug |-> "s", category_id |-> 4, views |-> 1500,
      posts_count |-> 3, reply_count |-> 2, like_count |-> 9,
      created_at |-> "2024-01-01T00:00:00Z", last_posted_at |-> "2024-01-02T00:00:00Z",
      last_poster_username |-> "u", pinned |-> TRUE, excerpt |-> "e", tags |-> tags,
      op_like_count |-> 5, has_accepted_answer |-> TRUE, bumped |-> TRUE ]

FullCategory ==
    [ id |-> 7, name |-> "N", slug |-> "s", topic_count |-> 12, post_count |-> 340,
      description_text |-> "about", color |-> "fff" ]

Restrict(f, keys) == [k \in keys |-> f[k]]

\* the objects that lack at most MaxMissing of the fields read
TopicObjects ==
    { Restrict(FullTopic(tags), (TopicKeys \ missing) \cup extra) :
        tags \in TagLists,
        missing \in {m \in SUBSET TopicKeys : Cardinality(m) <= MaxMissing},
        extra \in {{}, {"bumped"}} }

CategoryObjects ==
    { Restrict(FullCategory, (CategoryKeys \ missing) \cup extra) :
        missing \in {m \in SUBSET CategoryKeys : Cardinality(m) <= MaxMissing},
        extra \in {{}, {"color"}} }

InitRecord ==
    /\ \/ pc = "topic47" /\ d \in TopicObjects
       \/ pc = "category150" /\ d \in CategoryObjects
    /\ obj = NoObj
    /\ NoResult /\ CleanIdle /\ TimeIdle /\ CountIdle /\ RenderIdle

SpecRecord == InitRecord /\ [][NextRecord]_vars

----------------------------------------------------------------------------
(* Notions the claims about the normalizer are stated in *)

\* the lines of s: the pieces between newlines
RECURSIVE LinesFrom(_, _)
LinesFrom(s, pos) ==
    LET nl == FirstIdx(s, pos, NL)
    IN  IF nl = 0 THEN {SubSeq(s, pos, Len(s))}
        ELSE {SubSeq(s, pos, nl - 1)} \cup LinesFrom(s, nl + 1)

Lines(s) == LinesFrom(s, 1)

\* a parenthesized URL under the upload path, and nothing else
IsUploadCore(c) ==
    /\ Len(c) >= 4
    /\ c[1] = "("
    /\ c[2] \in UploadPrefix
    /\ c[Len(c)] = ")"
    /\ \A i \in 3..(Len(c) - 1) : c[i] # ")"

\* each maximal run of three or more newlines becomes two
RECURSIVE CollapseRunsFrom(_, _)
CollapseRunsFrom(s, pos) ==
    IF pos > Len(s) THEN <<>>
    ELSE IF s[pos] # NL THEN <<s[pos]>> \o CollapseRunsFrom(s, pos + 1)
    ELSE LET stops == {i \in pos..Len(s) : s[i] # NL}
             nxt == IF stops = {} THEN Len(s) + 1
                    ELSE CHOOSE i \in stops : \A j \in stops : i <= j
         IN  (IF nxt - pos >= 3 THEN <<NL, NL>> ELSE SubSeq(s, pos, nxt - 1))
             \o CollapseRunsFrom(s, nxt)

CollapseRuns(s) == CollapseRunsFrom(s, 1)

----------------------------------------------------------------------------
(* Claims about the normalizer *)

\* C1: the normalizer is idempotent: when it runs on the value its first
\* run returned, no stage changes the text any more (no link collapse, no
\* link removal, no upload-URL line removal, no blank-line collapse).
C1_SecondRunIsNoOp ==
    [][(run = 2 /\ pc \in {"clean169", "clean170", "clean171", "clean172"})
          => text' = text]_vars

\* C2: the returned string has no leading and no trailing whitespace.
C2_ReturnedTextIsTrimmed ==
    pc = "cleanRet" => text = strip(text)

\* C3: no line of the converted text that consists solely of a parenthesized
\* upload URL (padded with whitespace or not) is a line of the returned text.
C3_UploadLinesAbsent ==
    (pc = "cleanRet" /\ run = 1) =>
        \A l \in Lines(md) :
            IsUploadCore(strip(l)) => strip(l) \notin {strip(o) : o \in Lines(text)}

\* C4: a link whose label holds <digits>(x|U+00D7)<digits> is replaced by
\* exactly [image]: the text around it stays, nothing of label or URL does,
\* and the link alone renders as [image].
C4_DimLinkBecomesImage ==
    /\ (link.on /\ pc = "clean170") =>
           text = strip(link.pre \o ImagePlaceholder \o link.post)
    /\ (link.on /\ pc = "cleanRet" /\ link.pre = <<>> /\ link.post = <<>>) =>
           text = ImagePlaceholder

\* C5: the blank-line loop ends, and what it leaves is the text it received
\* with every run of three or more newlines cut to two and nothing else
\* changed, so no run of three newlines is left.
C5_CollapseLoop ==
    /\ [](pc = "cleanRet" => (text = CollapseRuns(entry) /\ ~HasTripleNL(text)))
    /\ <>(pc = "cleanRet")

C5_Witness ==
    /\ pc = "cleanRet"
    /\ entry = <<"a", NL, NL, NL, NL, NL, "a">>
    /\ text = <<"a", NL, NL, "a">>

----------------------------------------------------------------------------
(* Claims about the listing helpers *)

\* C6: a timestamp e whole seconds in the past renders as one number and
\* one unit, the largest that applies, by floor division: e s below 60,
\* e div 60 m below 3600, e div 3600 h below 86400, e div 86400 d from there.
C6_SingleLargestUnit ==
    (pc = "timeRet" /\ iso.kind = "aware" /\ iso.halves >= 0) =>
        LET e == iso.halves \div 2
        IN  /\ e < 60 => result = DecStr(e) \o <<"s">>
            /\ (60 <= e /\ e < 3600) => result = DecStr(e \div 60) \o <<"m">>
            /\ (3600 <= e /\ e < 86400) => result = DecStr(e \div 3600) \o <<"h">>
            /\ 86400 <= e => result = DecStr(e \div 86400) \o <<"d">>
            /\ e = 45 => result = <<"4", "5", "s">>
            /\ e = 90 => result = <<"1", "m">>
            /\ e = 7200 => result = <<"2", "h">>
            /\ e = 172800 => result = <<"2", "d">>

C6_Witness ==
    pc = "timeRet" /\ iso.kind = "aware" /\ iso.halves = 2 * 7200 + 1
        /\ result = <<"2", "h">>

\* C7: _relative_time never raises: "" gives "", and a string that does not
\* parse, or parses without an offset, gives its first 10 characters.
C7_ParseFailureRecovered ==
    /\ pc # "timeRaised"
    /\ pc = "timeRet" => raised = "none"
    /\ (pc = "timeRet" /\ iso.raw = <<>>) => result = <<>>
    /\ (pc = "timeRet" /\ iso.raw # <<>> /\ iso.kind \in {"invalid", "naive"}) =>
           /\ Len(result) = Min(10, Len(iso.raw))
           /\ \A i \in 1..Len(result) : result[i] = iso.raw[i]

C7_Witness ==
    /\ pc = "timeRet" /\ iso.kind = "naive" /\ Len(iso.raw) = 11
    /\ Len(result) = 10 /\ result[10] = "x" /\ iso.raw[11] = "2"

\* C8: _format_count gives the plain decimal string below 1000 and, from
\* 1000 on, the nearest tenth of n/1000 with exactly one decimal and a "k",
\* in one format for both branches.
C8_CountFormat ==
    pc = "countRet" =>
        /\ n < 1000 => result = DecStr(n)
        /\ n >= 1000 =>
               \E t \in {n \div 100, n \div 100 + 1} :
                   /\ 100 * t - n <= 50 /\ n - 100 * t <= 50
                   /\ result = DecStr(t \div 10) \o <<".", DigitChar(t % 10), "k">>
        /\ n = 0 => result = <<"0">>
        /\ n = 999 => result = <<"9", "9", "9">>
        /\ n = 1000 => result = <<"1", ".", "0", "k">>
        /\ n = 1500 => result = <<"1", ".", "5", "k">>
        /\ n = 12345 => result = <<"1", "2", ".", "3", "k">>

C8_Witness ==
    pc = "countRet" /\ n = 12345 /\ result = <<"1", "2", ".", "3", "k">>

\* C9: _render_topics writes exactly the first limit records of the fetched
\* list, min(limit, length) of them and none for a limit of 0 or below, in
\* input order and in both modes, and the fetched list stays as it was.
C9_FirstLimitRows ==
    pc = "renderRet" =>
        /\ Len(printed) = Max(0, Min(limit, Len(fetched)))
        /\ \A i \in 1..Len(printed) : i <= Len(fetched) /\ printed[i] = fetched[i]

----------------------------------------------------------------------------
(* Claims about the record constructors *)

\* the default the data model names for a field: 0, "", false, empty list
ZeroDefault(key) ==
    IF key \in {"pinned", "has_accepted_answer"} THEN [v |-> FALSE]
    ELSE IF key = "tags" THEN [v |-> <<>>]
    ELSE IF key \in {"slug", "created_at", "last_posted_at", "last_poster_username",
                     "excerpt", "description_text", "title", "name"}
         THEN [v |-> ""]
    ELSE [v |-> 0]

\* the field of the record that key is read into
FieldOf(key) == IF key = "description_text" THEN "description" ELSE key

Given(key) == IF key = "tags" THEN [v |-> TagNames(d[key])] ELSE [v |-> d[key]]

TagsWellFormed ==
    "tags" \in DOMAIN d =>
        /\ ~d["tags"].null
        /\ \A i \in 1..Len(d["tags"].items) :
               d["tags"].items[i].isdict => d["tags"].items[i].hasname

====
